---- MODULE Spec2Model ----
(***************************************************************************)
(* Model of the chunked audio upload server (src/main.py).                 *)
(*                                                                         *)
(* The server is one asyncio event loop.  upload_audio_chunk suspends only *)
(* at `await file.read()`, before it touches `sessions`; everything after  *)
(* it, process_complete_audio included, runs without giving the loop back  *)
(* (wave, speech_recognition and googletrans are blocking calls).  So the  *)
(* requests are handled in the order in which their reads complete, and    *)
(* while one processing run is under way no other handler and no cleanup   *)
(* round runs: `run` is the coroutine that owns the loop.  The wall clock  *)
(* still advances during a run.                                            *)
(*                                                                         *)
(* The code reads the clock for two things only: the age test              *)
(* `age > 1800` of cleanup_old_sessions and the second-resolution name of  *)
(* the output file.  The model lets events happen at the instants          *)
(* 0, 1800, 3600, ... seconds, which gives ages below, at and above the    *)
(* limit and runs within the same second.  A cleanup round may run         *)
(* whenever the loop is free: its sleep has ended at some earlier moment,  *)
(* and a round at an instant at which no entry is older than the limit     *)
(* changes nothing.                                                        *)
(***************************************************************************)
EXTENDS Integers, Sequences, FiniteSets, TLC

\* ---------------------------------------------------------------- constants
CHANNELS == 1
SAMPLE_WIDTH == 2
SAMPLE_RATE == 16000
MAX_AGE_SECONDS == 1800

\* ---------------------------------------------------------------- bounds
MaxRequests == 2
MaxTicks == 2

\* the inputs of upload_audio_chunk: session_id, chunk_number and the bytes of
\* file.  A chunk is empty or holds one byte, its own number, so that payloads
\* of different chunk numbers differ.  Session ids are opaque: the first
\* request is the one named "s1".
SessionIds == {"s1", "s2"}
ChunkNumbers == {1, 2}
ChunkData(n) == {<<>>, <<n>>}

VARIABLES
    sessions,        \* the sessions dict: session_id -> [chunks, start_time, total_chunks]
    run,             \* the process_complete_audio call that owns the event loop
    wavFiles,        \* audio_files/record_<timestamp>.wav : timestamp -> frames
    txtFiles,        \* audio_files/record_<timestamp>_translated.txt
    now,             \* datetime.datetime.now(), in seconds
    request,         \* the request most recently taken up by upload_audio_chunk
    lastResponse,    \* the response most recently sent
    numRequests,     \* requests taken up so far
    appended,        \* per live entry: the payloads in the order they arrived
    finalAccepted,   \* ids for which a request with is_final=true was taken up
    processCalls,    \* per id: calls of process_complete_audio
    recognizeCalls,  \* per id: calls of recognizer.recognize_google
    fastapi          \* the server_fastapi.py application: its last response and files

vars == <<sessions, run, wavFiles, txtFiles, now, request,
          lastResponse, numRequests, appended, finalAccepted, processCalls,
          recognizeCalls, fastapi>>

\* the session ids a request can carry: the first request is the one named "s1"
RequestIds == IF numRequests = 0 THEN {"s1"} ELSE SessionIds

\* ---------------------------------------------------------------- helpers
MaxLatest(a, b) == b

\* max(a, b)
Max(a, b) == IF a >= b THEN a ELSE b

EmptyDict == [k \in {} |-> 0]

\* d[k] = v of a Python dict
DictSet(d, k, v) == [x \in DOMAIN d \cup {k} |-> IF x = k THEN v ELSE d[x]]

DictClear(d, k) == EmptyDict

\* del d[k]
DictDel(d, k) == [x \in DOMAIN d \ {k} |-> d[x]]

RECURSIVE SortedKeysDesc(_)
SortedKeysDesc(S) ==
    IF S = {} THEN <<>>
    ELSE LET m == CHOOSE x \in S : \A y \in S : x >= y
         IN  <<m>> \o SortedKeysDesc(S \ {m})

\* sorted(chunks.keys())
RECURSIVE SortedKeys(_)
SortedKeys(S) ==
    IF S = {} THEN <<>>
    ELSE LET m == CHOOSE x \in S : \A y \in S : x <= y
         IN  <<m>> \o SortedKeys(S \ {m})

RECURSIVE ExtendAll(_, _)
ExtendAll(chunks, keys) ==
    IF keys = <<>> THEN <<>>
    ELSE chunks[Head(keys)] \o ExtendAll(chunks, Tail(keys))

CompleteAudioDesc(chunks) == ExtendAll(chunks, SortedKeysDesc(DOMAIN chunks))

\* complete_audio = bytearray(); for i in sorted(chunks.keys()): extend(chunks[i])
CompleteAudio(chunks) == ExtendAll(chunks, SortedKeys(DOMAIN chunks))

\* translator.translate(text_en, src='en', dest='id').text
Translated(text_en) == IF text_en = "hello world" THEN "halo dunia" ELSE text_en

Idle ==
    [pc |-> "idle", session_id |-> "", complete_audio |-> <<>>, timestamp |-> 0,
     nchunks |-> 0, text_en |-> "", translated |-> ""]

NoRequest == [session_id |-> "", chunk_number |-> 0, is_final |-> FALSE, chunk_data |-> <<>>]

Response(seq, sid, code, kind, received, en, idn) ==
    [seq |-> seq, session_id |-> sid, status_code |-> code, kind |-> kind,
     chunks_received |-> received, english |-> en, indonesian |-> idn]

NoResponse == Response(0, "", 0, "none", 0, "", "")

NewSessionUnstamped == [chunks |-> EmptyDict, start_time |-> 0, total_chunks |-> 0]

\* lines 65-70: the entry of a session id seen for the first time
NewSession == [chunks |-> EmptyDict, start_time |-> now, total_chunks |-> 0]

StoredSessionKeepFirst(s, n, data) ==
    LET entry == IF s \in DOMAIN sessions THEN sessions[s] ELSE NewSession
    IN  [entry EXCEPT !.chunks = IF n \in DOMAIN @ THEN @ ELSE DictSet(@, n, data),
                      !.total_chunks = Max(@, n)]

StoredSessionCounting(s, n, data) ==
    LET entry == IF s \in DOMAIN sessions THEN sessions[s] ELSE NewSession
    IN  [entry EXCEPT !.chunks = DictSet(@, n, data),
                      !.total_chunks = @ + 1]

\* lines 64-78: the entry of session s once chunk n is stored
StoredSession(s, n, data) ==
    LET entry == IF s \in DOMAIN sessions THEN sessions[s] ELSE NewSession
    IN  [entry EXCEPT !.chunks = DictSet(@, n, data),
                      !.total_chunks = Max(@, n)]

\* ---------------------------------------------------------------- initial state
Init ==
    /\ sessions = EmptyDict
    /\ run = Idle
    /\ wavFiles = EmptyDict
    /\ txtFiles = EmptyDict
    /\ now = 0
    /\ request = NoRequest
    /\ lastResponse = NoResponse
    /\ numRequests = 0
    /\ appended = [s \in SessionIds |-> <<>>]
    /\ finalAccepted = {}
    /\ processCalls = [s \in SessionIds |-> 0]
    /\ recognizeCalls = [s \in SessionIds |-> 0]
    /\ fastapi = [lastResponse |-> NoResponse, wavFiles |-> EmptyDict,
                  txtFiles |-> EmptyDict]

\* ---------------------------------------------------------------- upload_audio_chunk
\* lines 53-93: the handler from the completed read up to the response of a
\* non-final chunk, or up to the call of process_complete_audio
UploadChunk(s, n, final, data) ==
    /\ run.pc = "idle"
    /\ numRequests < MaxRequests
    /\ numRequests' = numRequests + 1
    /\ request' = [session_id |-> s, chunk_number |-> n, is_final |-> final,
                   chunk_data |-> data]
    /\ sessions' = DictSet(sessions, s, StoredSession(s, n, data))
    /\ appended' = [appended EXCEPT ![s] =
                       IF s \in DOMAIN sessions THEN Append(@, data) ELSE <<data>>]
    /\ IF final
       THEN /\ run' = [Idle EXCEPT !.pc = "process", !.session_id = s]
            /\ finalAccepted' = finalAccepted \cup {s}
            /\ UNCHANGED lastResponse
       ELSE /\ lastResponse' =
                   Response(numRequests + 1, s, 200, "chunk_received",
                            Cardinality(DOMAIN sessions'[s].chunks), "", "")
            /\ UNCHANGED <<run, finalAccepted>>
    /\ UNCHANGED <<wavFiles, txtFiles, now, processCalls, recognizeCalls,
                   fastapi>>

\* ---------------------------------------------------------------- process_complete_audio
\* the response that ends a processing run
Finish(code, kind, en, idn) ==
    /\ run' = Idle
    /\ lastResponse' = Response(numRequests, run.session_id, code, kind, 0, en, idn)

\* lines 230-234, then 95-99: the HTTPException(500) of the outer handlers
FatalError == Finish(500, "fatal_error", "", "")

ProcessingErrorEscapes ==
    /\ run' = [run EXCEPT !.pc = "crashed"]
    /\ UNCHANGED lastResponse

\* lines 217-228: the 500 response of the inner handler
ProcessingError == Finish(500, "processing_error", "", "")

ProcessStartDetached ==
    /\ run.pc = "process"
    /\ processCalls' = [processCalls EXCEPT ![run.session_id] = @ + 1]
    /\ run' = [run EXCEPT
                  !.pc = "write_wav",
                  !.complete_audio = CompleteAudio(sessions[run.session_id].chunks),
                  !.nchunks = Cardinality(DOMAIN sessions[run.session_id].chunks),
                  !.timestamp = now]
    /\ lastResponse' = Response(numRequests, run.session_id, 200, "processing_started",
                                0, "", "")
    /\ UNCHANGED <<sessions, wavFiles, txtFiles, now, request, numRequests,
                   appended, finalAccepted, recognizeCalls,
                   fastapi>>

\* lines 103-131: look the session up, join the chunks, name the output file
ProcessStart ==
    /\ run.pc = "process"
    /\ processCalls' = [processCalls EXCEPT ![run.session_id] = @ + 1]
    /\ IF run.session_id \notin DOMAIN sessions
       THEN FatalError
       ELSE /\ run' = [run EXCEPT
                          !.pc = "write_wav",
                          !.complete_audio = CompleteAudio(sessions[run.session_id].chunks),
                          !.nchunks = Cardinality(DOMAIN sessions[run.session_id].chunks),
                          !.timestamp = now]
            /\ UNCHANGED lastResponse
    /\ UNCHANGED <<sessions, wavFiles, txtFiles, now, request, numRequests,
                   appended, finalAccepted, recognizeCalls,
                   fastapi>>

\* lines 133-139: wave.open(output_file, 'wb') ... writeframes(complete_audio)
WriteWav(ok) ==
    /\ run.pc = "write_wav"
    /\ IF ok
       THEN /\ wavFiles' = DictSet(wavFiles, run.timestamp, run.complete_audio)
            /\ run' = [run EXCEPT !.pc = "recognize"]
            /\ UNCHANGED lastResponse
       ELSE /\ FatalError
            /\ UNCHANGED wavFiles
    /\ UNCHANGED <<sessions, txtFiles, now, request, numRequests,
                   appended, finalAccepted, processCalls, recognizeCalls,
                   fastapi>>

RecognizeOutcomes == {"ok", "read_error", "unknown_value", "request_error", "error"}

RecognizeRetrying(outcome) ==
    /\ run.pc = "recognize"
    /\ recognizeCalls' = IF outcome = "read_error" THEN recognizeCalls
                         ELSE [recognizeCalls EXCEPT ![run.session_id] = @ + 1]
    /\ CASE outcome = "ok" ->
                /\ run' = [run EXCEPT !.pc = "translate", !.text_en = "hello world"]
                /\ UNCHANGED lastResponse
         [] outcome = "unknown_value" -> Finish(400, "not_recognized", "", "")
         [] outcome = "request_error" -> UNCHANGED <<run, lastResponse>>
         [] OTHER -> ProcessingError
    /\ UNCHANGED <<sessions, wavFiles, txtFiles, now, request, numRequests,
                   appended, finalAccepted, processCalls,
                   fastapi>>

\* lines 145-153 and the handlers of lines 196-228: read the WAV file back and
\* call recognize_google
Recognize(outcome) ==
    /\ run.pc = "recognize"
    /\ recognizeCalls' = IF outcome = "read_error" THEN recognizeCalls
                         ELSE [recognizeCalls EXCEPT ![run.session_id] = @ + 1]
    /\ CASE outcome = "ok" ->
                /\ run' = [run EXCEPT !.pc = "translate", !.text_en = "hello world"]
                /\ UNCHANGED lastResponse
         [] outcome = "unknown_value" -> Finish(400, "not_recognized", "", "")
         [] outcome = "request_error" -> Finish(503, "api_error", "", "")
         [] OTHER -> ProcessingError
    /\ UNCHANGED <<sessions, wavFiles, txtFiles, now, request, numRequests,
                   appended, finalAccepted, processCalls,
                   fastapi>>

\* lines 155-159: translator.translate
Translate(ok) ==
    /\ run.pc = "translate"
    /\ IF ok
       THEN /\ run' = [run EXCEPT !.pc = "save_txt", !.translated = Translated(run.text_en)]
            /\ UNCHANGED lastResponse
       ELSE ProcessingError
    /\ UNCHANGED <<sessions, wavFiles, txtFiles, now, request, numRequests,
                   appended, finalAccepted, processCalls, recognizeCalls,
                   fastapi>>

SessionsKept == sessions

\* lines 174-175: del sessions[session_id]
SessionsAfterSuccess == DictDel(sessions, run.session_id)

\* lines 161-194: write the _translated.txt file, delete the session, answer
SaveTxt(ok) ==
    /\ run.pc = "save_txt"
    /\ IF ok
       THEN /\ txtFiles' = DictSet(txtFiles, run.timestamp,
                                   [session_id |-> run.session_id, chunks |-> run.nchunks,
                                    english |-> run.text_en,
                                    indonesian |-> run.translated])
            /\ sessions' = SessionsAfterSuccess
            /\ Finish(200, "processed", run.text_en, run.translated)
       ELSE /\ ProcessingError
            /\ UNCHANGED <<txtFiles, sessions>>
    /\ UNCHANGED <<wavFiles, now, request, numRequests,
                   appended, finalAccepted, processCalls, recognizeCalls,
                   fastapi>>

\* ---------------------------------------------------------------- upload_audio
\* what the collaborators of one /upload-audio request do: the wave write
\* fails, reading the file back fails, recognize_google raises
\* UnknownValueError, RequestError or something else, translate raises, the
\* text file cannot be written, or all of them succeed
UploadOutcomes ==
    {"ok", "wav_error", "read_error", "unknown_value", "request_error", "error",
     "translate_error", "save_error"}

\* the payloads of an /upload-audio request
UploadData == ChunkData(1)

\* src/main.py lines 241-277: the whole handler after the read; every exception
\* is caught at line 275 and raised as HTTPException(500); no text file is
\* written and sessions is not touched
MainUploadAudio(data, r) ==
    /\ run.pc = "idle"
    /\ numRequests < MaxRequests
    /\ numRequests' = numRequests + 1
    /\ request' = [session_id |-> "", chunk_number |-> 0, is_final |-> FALSE,
                   chunk_data |-> data]
    /\ wavFiles' = IF r = "wav_error" THEN wavFiles ELSE DictSet(wavFiles, now, data)
    /\ lastResponse' =
          IF r \in {"ok", "save_error"}
          THEN Response(numRequests + 1, "", 200, "processed", 0,
                        "hello world", Translated("hello world"))
          ELSE Response(numRequests + 1, "", 500, "fatal_error", 0, "", "")
    /\ UNCHANGED <<sessions, run, txtFiles, now, appended, finalAccepted,
                   processCalls, recognizeCalls>>

\* src/server_fastapi.py lines 41-133: the whole handler after the read
FastapiUploadAudio(data, r) ==
    LET seq == fastapi.lastResponse.seq + 1
        wav == IF r = "wav_error" THEN fastapi.wavFiles
               ELSE DictSet(fastapi.wavFiles, now, data)
        txt == IF r = "ok"
               THEN DictSet(fastapi.txtFiles, now,
                            [english |-> "hello world",
                             indonesian |-> Translated("hello world")])
               ELSE fastapi.txtFiles
        resp == CASE r = "ok" ->
                       Response(seq, "", 200, "processed", 0,
                                "hello world", Translated("hello world"))
                  [] r = "wav_error" -> Response(seq, "", 500, "fatal_error", 0, "", "")
                  [] r = "unknown_value" -> Response(seq, "", 400, "not_recognized", 0, "", "")
                  [] r = "request_error" -> Response(seq, "", 503, "api_error", 0, "", "")
                  [] OTHER -> Response(seq, "", 500, "processing_error", 0, "", "")
    IN  fastapi' = [lastResponse |-> resp, wavFiles |-> wav, txtFiles |-> txt]

\* a request to the /upload-audio endpoint of src/main.py
LegacyUpload(data, r) ==
    /\ MainUploadAudio(data, r)
    /\ UNCHANGED fastapi

\* ---------------------------------------------------------------- cleanup_old_sessions
Age(s) == now - sessions[s].start_time

ToDeleteFinishedOnly ==
    {s \in DOMAIN sessions : Age(s) > MAX_AGE_SECONDS /\ s \in finalAccepted}

\* lines 289-292
ToDelete == {s \in DOMAIN sessions : Age(s) > MAX_AGE_SECONDS}

\* lines 284-296: one round of the loop, once the sleep is over
Cleanup ==
    /\ run.pc = "idle"
    /\ sessions' = [s \in DOMAIN sessions \ ToDelete |-> sessions[s]]
    /\ UNCHANGED <<run, wavFiles, txtFiles, now, request, lastResponse, numRequests,
                   appended, finalAccepted, processCalls, recognizeCalls,
                   fastapi>>

\* ---------------------------------------------------------------- the clock
Tick ==
    /\ now < MaxTicks * MAX_AGE_SECONDS
    /\ now' = now + MAX_AGE_SECONDS
    /\ UNCHANGED <<sessions, run, wavFiles, txtFiles, request, lastResponse,
                   numRequests, appended, finalAccepted, processCalls, recognizeCalls,
                   fastapi>>

\* ---------------------------------------------------------------- specification
Next ==
    \/ \E s \in RequestIds, n \in ChunkNumbers, final \in BOOLEAN :
          \E data \in ChunkData(n) : UploadChunk(s, n, final, data)
    \/ ProcessStart
    \/ \E ok \in BOOLEAN : WriteWav(ok)
    \/ \E outcome \in RecognizeOutcomes : Recognize(outcome)
    \/ \E ok \in BOOLEAN : Translate(ok)
    \/ \E ok \in BOOLEAN : SaveTxt(ok)
    \/ \E data \in UploadData, r \in UploadOutcomes : LegacyUpload(data, r)
    \/ Cleanup
    \/ Tick

Spec == Init /\ [][Next]_vars

\* the same upload with the same collaborator results sent to both applications
UploadBoth(data, r) ==
    /\ MainUploadAudio(data, r)
    /\ FastapiUploadAudio(data, r)

CompatNext ==
    \/ \E data \in UploadData, r \in UploadOutcomes : UploadBoth(data, r)
    \/ Tick

\* the two /upload-audio endpoints side by side
CompatSpec == Init /\ [][CompatNext]_vars

\* the steps of a processing run
ProcessStep ==
    \/ ProcessStart
    \/ \E ok \in BOOLEAN : WriteWav(ok)
    \/ \E outcome \in RecognizeOutcomes : Recognize(outcome)
    \/ \E ok \in BOOLEAN : Translate(ok)
    \/ \E ok \in BOOLEAN : SaveTxt(ok)

\* a blocking call of a run returns or raises: a run that can step does step
FairSpec == Spec /\ WF_vars(ProcessStep)

\* time passes, and the cleanup task gets the loop when it is free and has
\* something to delete
CleanupFairSpec == Spec /\ WF_vars(ProcessStep) /\ WF_vars(Tick) /\ WF_vars(Cleanup)

\* ---------------------------------------------------------------- properties
\* a request for session s is taken up by upload_audio_chunk in this step
TakesUp(s) == numRequests' = numRequests + 1 /\ request'.session_id = s

\* a request is taken up by the legacy upload_audio of src/main.py in this step
TakesUpLegacy == numRequests' = numRequests + 1 /\ request'.session_id = ""

\* the response to the request taken up last has been sent
Responded == lastResponse.seq = numRequests

RECURSIVE SumLen(_, _)
SumLen(chunks, keys) ==
    IF keys = {} THEN 0
    ELSE LET k == CHOOSE x \in keys : TRUE
         IN  Len(chunks[k]) + SumLen(chunks, keys \ {k})

\* the bytes stored for session s
ByteCount(s) ==
    IF s \in DOMAIN sessions THEN SumLen(sessions[s].chunks, DOMAIN sessions[s].chunks)
    ELSE 0

\* the pipeline stages of a run, reached once the audio container is written
AfterWav == {"recognize", "translate", "save_txt"}

\* C1: for every session id, process_complete_audio and recognize_google are
\* executed at most once, however many requests with is_final=true arrive:
\* a second finish signal schedules nothing.
C1_AtMostOneJobPerSession ==
    \A s \in SessionIds : processCalls[s] <= 1 /\ recognizeCalls[s] <= 1

\* C2: once a request with is_final=true was taken up for session s, every
\* later request for s is answered at once with an error, starts no processing
\* and leaves the bytes stored for s unchanged.
C2_AppendAfterFinishRejected ==
    [][\A s \in finalAccepted :
          TakesUp(s) =>
              /\ ByteCount(s)' = ByteCount(s)
              /\ run'.pc = "idle"
              /\ lastResponse'.seq = numRequests'
              /\ lastResponse'.status_code >= 400]_vars

RECURSIVE Flatten(_)
Flatten(seqs) == IF seqs = <<>> THEN <<>> ELSE Head(seqs) \o Flatten(Tail(seqs))

\* the chunks of the session a run is processing
RunChunks == sessions[run.session_id].chunks

\* the frames of the audio container the run has written
RunPayload == wavFiles[run.timestamp]

\* the position in the payload after which the chunk numbered k starts
Offset(chunks, k) == SumLen(chunks, {j \in DOMAIN chunks : j < k})

MinAudioBytes == SAMPLE_RATE * SAMPLE_WIDTH * CHANNELS * 1

\* C5: a run whose joined audio is shorter than MinAudioBytes never calls
\* recognize_google and ends with the outcome AudioTooShort.
C5_TooShortIsNeverTranscribed ==
    [][(run.pc # "idle" /\ Len(run.complete_audio) < MinAudioBytes) =>
          /\ recognizeCalls' = recognizeCalls
          /\ run'.pc = "idle" => lastResponse'.kind = "audio_too_short"]_vars

Outcomes == {"processed", "not_recognized", "api_error", "processing_error", "fatal_error"}

\* C7: every failure inside a run is turned into an error response of that
\* run's request, and every run ends: a run in progress leads to a free loop
\* with the request answered by a success or a failure outcome.
C7_ProcessingAlwaysEnds ==
    /\ []((run.pc = "idle" /\ request.is_final) =>
            /\ Responded
            /\ lastResponse.session_id = request.session_id
            /\ lastResponse.kind \in Outcomes
            /\ lastResponse.kind # "processed" => lastResponse.status_code >= 400)
    /\ (run.pc # "idle") ~> (run.pc = "idle" /\ Responded)

\* C7 witness: a run in which a pipeline call raised has ended with the 500
\* response of the inner handler.
C7_Witness ==
    /\ run.pc = "idle"
    /\ request.is_final
    /\ Responded
    /\ lastResponse.kind = "processing_error"
    /\ recognizeCalls[request.session_id] = 1
    /\ request.session_id \in DOMAIN sessions

\* C8: a run whose transcription and translation both returned ends with the
\* success response carrying both texts, whether or not the _translated.txt
\* file could be written.
C8_StoreFailureKeepsSuccess ==
    [][(run.pc = "save_txt" /\ run'.pc = "idle") =>
          /\ lastResponse'.status_code = 200
          /\ lastResponse'.english = run.text_en
          /\ lastResponse'.indonesian = run.translated]_vars

\* C9: a request whose payload is empty is answered at once with an error and
\* leaves the sessions table unchanged.
C9_EmptyChunkRejected ==
    [][\A s \in SessionIds :
          (TakesUp(s) /\ request'.chunk_data = <<>>) =>
              /\ sessions' = sessions
              /\ run'.pc = "idle"
              /\ lastResponse'.seq = numRequests'
              /\ lastResponse'.status_code >= 400]_vars

\* a processing run ends in this step
RunEnds == run.pc # "idle" /\ run'.pc = "idle"

StageOrder == <<"process", "write_wav", "recognize", "translate", "save_txt">>
Stage(pc) == CHOOSE i \in 1..Len(StageOrder) : StageOrder[i] = pc

\* C11: within a run recognize_google is called only at the stage that follows
\* the successful write of the container, translate only at the stage that
\* follows a returned transcription, and every step of a run moves it to the
\* next stage or ends it, so that neither call is made twice in a run.
C11_PipelineOrderedNoRetry ==
    [][/\ recognizeCalls' # recognizeCalls =>
            /\ run.pc = "recognize"
            /\ run.timestamp \in DOMAIN wavFiles
            /\ wavFiles[run.timestamp] = run.complete_audio
            /\ recognizeCalls' = [recognizeCalls EXCEPT ![run.session_id] = @ + 1]
            /\ run'.pc \in {"translate", "idle"}
       /\ (run.pc = "translate" /\ run' # run) =>
            /\ run.text_en = "hello world"
            /\ recognizeCalls[run.session_id] >= 1
            /\ run'.pc \in {"save_txt", "idle"}
       /\ (run.pc # "idle" /\ run' # run) =>
            \/ run'.pc = "idle"
            \/ Stage(run'.pc) = Stage(run.pc) + 1
       /\ (run.pc = "idle" /\ run' # run) => run'.pc = "process"]_vars

\* C11 witness: a run whose recognize_google call raised RequestError has
\* ended with the 503 response after that one call.
C11_Witness ==
    /\ run.pc = "idle"
    /\ numRequests = 1
    /\ lastResponse.kind = "api_error"
    /\ recognizeCalls[lastResponse.session_id] = 1
    /\ lastResponse.session_id \in DOMAIN sessions

\* the chunk numbers stored for session s
StoredNumbers(s) == IF s \in DOMAIN sessions THEN DOMAIN sessions[s].chunks ELSE {}

\* C13: a request stores its payload under its chunk_number, replacing what
\* was stored under that number and nothing else; the audio a run assembles
\* holds the chunks stored at its start in ascending chunk_number, whatever
\* the order of arrival; and nothing changes the assembled audio or the table
\* while the run goes on, so that later chunks are not part of it.
C13_AssembledInChunkNumberOrder ==
    [][/\ \A s \in SessionIds :
            TakesUp(s) =>
                /\ DOMAIN sessions'[s].chunks = StoredNumbers(s) \cup {request'.chunk_number}
                /\ sessions'[s].chunks[request'.chunk_number] = request'.chunk_data
                /\ \A k \in StoredNumbers(s) \ {request'.chunk_number} :
                      sessions'[s].chunks[k] = sessions[s].chunks[k]
       /\ (run.pc = "process" /\ run'.pc = "write_wav") =>
            /\ Len(run'.complete_audio) = SumLen(RunChunks, DOMAIN RunChunks)
            /\ \A k \in DOMAIN RunChunks : \A i \in 1..Len(RunChunks[k]) :
                  run'.complete_audio[Offset(RunChunks, k) + i] = RunChunks[k][i]
       /\ (run.pc \notin {"idle", "process"} /\ run'.pc # "idle") =>
            /\ run'.complete_audio = run.complete_audio
            /\ sessions' = sessions
            /\ numRequests' = numRequests]_vars

\* C13 witness: a run has assembled <<1, 2>> from chunk 2, which arrived
\* first, and chunk 1, which arrived with the final request.
C13_Witness ==
    /\ run.pc = "write_wav"
    /\ request.is_final
    /\ request.chunk_number = 1
    /\ appended[run.session_id] = <<<<2>>, <<1>>>>
    /\ run.complete_audio = <<1, 2>>

\* C14: neither a processing run nor a legacy upload_audio request writes its
\* container to a file name an earlier one has written: the names
\* record_<timestamp>.wav of any two of them differ.
C14_RunsWriteDistinctFiles ==
    [][ /\ (run.pc = "write_wav" /\ run'.pc = "recognize") =>
              run.timestamp \notin DOMAIN wavFiles
        /\ (TakesUpLegacy /\ lastResponse'.status_code = 200) =>
              now \notin DOMAIN wavFiles ]_vars

\* C15: an entry for which no request with is_final=true has been taken up
\* (an upload in progress) is never removed from the table.
C15_CleanupSparesUploadInProgress ==
    [][\A s \in DOMAIN sessions :
          s \notin finalAccepted => s \in DOMAIN sessions']_vars

\* the last instant of the model's clock
LastInstant == MaxTicks * MAX_AGE_SECONDS

\* C16: every entry the clock can still see grow older than MAX_AGE_SECONDS
\* is eventually removed from the table, whether or not a final chunk arrives
\* and whether or not its run succeeds; and an entry leaves the table outside
\* the end of a run only when it is more than MAX_AGE_SECONDS old.
C16_EveryEntryEventuallyRemoved ==
    /\ \A s \in SessionIds :
          (s \in DOMAIN sessions /\ sessions[s].start_time + MAX_AGE_SECONDS < LastInstant)
              ~> (s \notin DOMAIN sessions)
    /\ [][\A s \in DOMAIN sessions :
             (s \notin DOMAIN sessions' /\ ~RunEnds) => Age(s) > MAX_AGE_SECONDS]_vars

\* C16 witness: the table is empty again although no final chunk was ever
\* sent: the cleanup has removed the entries of the requests taken up.
C16_Witness ==
    /\ numRequests >= 1
    /\ finalAccepted = {}
    /\ DOMAIN sessions = {}
    /\ now > MAX_AGE_SECONDS

\* C17: a non-final request that repeats the chunk_number and the payload
\* already stored for a live session leaves the whole table as it was, and the
\* chunks_received of every non-final response is the number of distinct chunk
\* numbers stored for the session.
C17_ResendIsIdempotent ==
    [][\A s \in SessionIds :
          (TakesUp(s) /\ ~request'.is_final) =>
              /\ lastResponse'.seq = numRequests'
              /\ lastResponse'.chunks_received = Cardinality(DOMAIN sessions'[s].chunks)
              /\ ( /\ request'.chunk_number \in StoredNumbers(s)
                   /\ sessions[s].chunks[request'.chunk_number] = request'.chunk_data )
                 => sessions' = sessions]_vars

\* C17 witness: the same non-final chunk was taken up twice for a live
\* session, which holds one chunk.
C17_Witness ==
    /\ numRequests = 2
    /\ ~request.is_final
    /\ request.session_id = "s1"
    /\ appended["s1"] = <<<<1>>, <<1>>>>
    /\ finalAccepted = {}
    /\ DOMAIN sessions["s1"].chunks = {request.chunk_number}
    /\ lastResponse.chunks_received = 1

\* the largest of 0 and the numbers of the set S
RECURSIVE MaxOf(_)
MaxOf(S) ==
    IF S = {} THEN 0
    ELSE LET k == CHOOSE x \in S : TRUE
             m == MaxOf(S \ {k})
         IN  IF k > m THEN k ELSE m

\* C19: for every entry of the table total_chunks is the largest of 0 and the
\* chunk numbers stored in it, and it never decreases while the entry stays in
\* the table.
C19_TotalChunksIsMaxNumber ==
    /\ [](\A s \in DOMAIN sessions :
            sessions[s].total_chunks = MaxOf(DOMAIN sessions[s].chunks))
    /\ [][\A s \in DOMAIN sessions \cap DOMAIN sessions' :
            sessions'[s].total_chunks >= sessions[s].total_chunks]_vars

\* C19 witness: chunk 1 arrived after chunk 2 and total_chunks is still 2.
C19_Witness ==
    /\ request.chunk_number = 1
    /\ request.session_id \in DOMAIN sessions
    /\ DOMAIN sessions[request.session_id].chunks = {1, 2}
    /\ sessions[request.session_id].total_chunks = 2

\* the hundreds digit of an HTTP status code
StatusClass(code) == code \div 100

\* C12: for the same uploaded bytes and the same collaborator results the
\* /upload-audio endpoint of src/main.py and the one of src/server_fastapi.py
\* answer with the same status class, the same status code and, on success,
\* the same english and indonesian text.
C12_LegacyBackwardCompatible ==
    (lastResponse.seq = fastapi.lastResponse.seq) =>
        /\ StatusClass(lastResponse.status_code) =
               StatusClass(fastapi.lastResponse.status_code)
        /\ lastResponse.status_code = fastapi.lastResponse.status_code
        /\ lastResponse.english = fastapi.lastResponse.english
        /\ lastResponse.indonesian = fastapi.lastResponse.indonesian

\* C18: a request for session s, the steps of a processing run of s and the
\* deletion of s after success leave the entry of every other session id as it
\* was, and a legacy upload_audio request leaves the whole table as it was.
C18_SessionsIndependent ==
    [][ /\ \A s \in SessionIds :
              TakesUp(s) =>
                  \A o \in SessionIds \ {s} :
                      /\ o \in DOMAIN sessions <=> o \in DOMAIN sessions'
                      /\ o \in DOMAIN sessions => sessions'[o] = sessions[o]
        /\ run.pc # "idle" =>
              \A o \in SessionIds \ {run.session_id} :
                  /\ o \in DOMAIN sessions <=> o \in DOMAIN sessions'
                  /\ o \in DOMAIN sessions => sessions'[o] = sessions[o]
        /\ TakesUpLegacy => sessions' = sessions ]_vars

\* C18 witness: session s2 was processed with success and deleted while the
\* entry of s1, with its chunk, is still in the table.
C18_Witness ==
    /\ run.pc = "idle"
    /\ lastResponse.kind = "processed"
    /\ lastResponse.session_id = "s2"
    /\ "s2" \notin DOMAIN sessions
    /\ "s1" \in DOMAIN sessions
    /\ DOMAIN sessions["s1"].chunks # {}

====
